---- MODULE Spec2Model ----
(***************************************************************************)
(* Model of spm/SentencePieceInterop.cpp: the C-callable wrapper around a  *)
(* SentencePiece processor (LoadModel, EncodeAsIds, UCS2LengthOfPieceId,   *)
(* UnloadModel).  Each exported function is one atomic action.  The        *)
(* tokenizer engine and the UTF-16/UTF-8 helpers of unicode_conversions.h  *)
(* are collaborators; they are modelled by small concrete operators.       *)
(***************************************************************************)
EXTENDS Integers, Sequences, FiniteSets, TLC

VARIABLES heap, owned, created, last

vars == <<heap, owned, created, last>>

(***************************************************************************)
(* Bounds of the model.                                                    *)
(***************************************************************************)
MaxHandles == 2     \* addresses operator new can hand out
MaxWordLen == 3     \* UTF-16 code units in a text passed to EncodeAsIds
MaxCapacity == 3    \* largest caller buffer
MaxVocab == 2       \* longest vocabulary list passed to LoadModel

nullptr == 0

Addr == 1..MaxHandles

(***************************************************************************)
(* Text.  UTF-16 strings are sequences of 16-bit code units, UTF-8 strings *)
(* sequences of bytes.  A converter result is [ok, val]; ok = FALSE stands *)
(* for the exception the converter throws on malformed input.              *)
(***************************************************************************)
LetterA == <<65>>                       \* "A"          U+0041
LowerOneEighth == <<9601>>              \* "_" (U+2581), SentencePiece's word-boundary mark
Grinning == <<55357, 56832>>            \* U+1F600 as a surrogate pair
LoneLow == <<56832>>                    \* malformed: unpaired low surrogate
LoneHigh == <<55357>>                   \* malformed: unpaired high surrogate

CodeUnits == {65, 55357, 56832}

RECURSIVE SeqsUpTo(_, _)
SeqsUpTo(S, n) ==
    IF n = 0 THEN {<<>>}
    ELSE LET shorter == SeqsUpTo(S, n - 1)
         IN  shorter \cup {Append(s, x) : s \in shorter, x \in S}

IsHighSurrogate(u) == u >= 55296 /\ u <= 56319
IsLowSurrogate(u) == u >= 56320 /\ u <= 57343

\* UTF-8 bytes of one code point
utf8_encode(cp) ==
    IF cp < 128 THEN <<cp>>
    ELSE IF cp < 2048 THEN <<192 + (cp \div 64), 128 + (cp % 64)>>
    ELSE IF cp < 65536 THEN
        <<224 + (cp \div 4096), 128 + ((cp \div 64) % 64), 128 + (cp % 64)>>
    ELSE <<240 + (cp \div 262144), 128 + ((cp \div 4096) % 64),
           128 + ((cp \div 64) % 64), 128 + (cp % 64)>>

RECURSIVE utf16_to_utf8_from(_, _)
utf16_to_utf8_from(w, i) ==
    IF i > Len(w) THEN [ok |-> TRUE, val |-> <<>>]
    ELSE IF IsHighSurrogate(w[i]) THEN
        IF i + 1 <= Len(w) /\ IsLowSurrogate(w[i + 1])
        THEN LET cp == 65536 + (w[i] - 55296) * 1024 + (w[i + 1] - 56320)
                 rest == utf16_to_utf8_from(w, i + 2)
             IN  [ok |-> rest.ok, val |-> utf8_encode(cp) \o rest.val]
        ELSE [ok |-> FALSE, val |-> <<>>]
    ELSE IF IsLowSurrogate(w[i]) THEN [ok |-> FALSE, val |-> <<>>]
    ELSE LET rest == utf16_to_utf8_from(w, i + 1)
         IN  [ok |-> rest.ok, val |-> utf8_encode(w[i]) \o rest.val]

utf16_to_utf8(w) == utf16_to_utf8_from(w, 1)

\* number of UTF-16 code units a UTF-8 string converts to, counted on the bytes:
\* every lead byte is one unit, the lead byte of a 4-byte sequence two
RECURSIVE count_utf8_to_utf16(_)
count_utf8_to_utf16(s) ==
    IF s = <<>> THEN 0
    ELSE (IF Head(s) \div 64 = 2 THEN 0 ELSE IF Head(s) >= 240 THEN 2 ELSE 1)
         + count_utf8_to_utf16(Tail(s))

(***************************************************************************)
(* The tokenizer engine (sentencepiece::SentencePieceProcessor), seen      *)
(* through the five calls the wrapper makes: Load, SetVocabulary,          *)
(* EncodeAsIds, IdToPiece, IsUnknown.  A processor is [model, unused]:     *)
(* the model it has loaded (NoModel = none) and the piece ids a restricted       *)
(* vocabulary has switched off.                                            *)
(***************************************************************************)
PieceUnits ==
    << <<60, 117, 110, 107, 62>>,           \* id 0  "<unk>"  the unknown piece
       LowerOneEighth,                      \* id 1
       LetterA,                             \* id 2
       LowerOneEighth \o LetterA,           \* id 3
       LowerOneEighth \o Grinning >>        \* id 4

Pieces == [k \in 1..Len(PieceUnits) |-> utf16_to_utf8(PieceUnits[k]).val]

PieceIds == 0..(Len(PieceUnits) - 1)

UnigramModel == "unigram"     \* a well-formed subword model
WordModel == "word"           \* a well-formed model whose type takes no vocabulary restriction
NoModel == "none"

\* the files the engine finds: path "A" and "AA" hold well-formed models, the
\* path of U+1F600 a truncated one; any other path cannot be read
ModelFile(filename) ==
    IF filename = utf16_to_utf8(LetterA).val THEN UnigramModel
    ELSE IF filename = utf16_to_utf8(LetterA \o LetterA).val THEN WordModel
    ELSE NoModel

NewProcessor == [model |-> NoModel, unused |-> {}]

Engine_Load(proc, filename) ==
    IF ModelFile(filename) = NoModel
    THEN [status |-> [ok |-> FALSE], proc |-> proc]
    ELSE [status |-> [ok |-> TRUE],
          proc |-> [model |-> ModelFile(filename), unused |-> {}]]

Utf8CharLen(b) == IF b < 128 THEN 1 ELSE IF b < 224 THEN 2 ELSE IF b < 240 THEN 3 ELSE 4

IsSingleChar(piece) == Len(piece) = Utf8CharLen(piece[1])

\* the pieces a vocabulary restriction can switch off
RestrictablePieces == {id \in PieceIds : id # 0 /\ ~IsSingleChar(Pieces[id + 1])}

InVocab(piece, valid_vocab) == \E k \in 1..Len(valid_vocab) : valid_vocab[k] = piece

Engine_SetVocabulary(proc, valid_vocab) ==
    IF proc.model # UnigramModel
    THEN [status |-> [ok |-> FALSE], proc |-> proc]
    ELSE [status |-> [ok |-> TRUE],
          proc |-> [proc EXCEPT !.unused =
                      {id \in RestrictablePieces : ~InVocab(Pieces[id + 1], valid_vocab)}]]

IsPrefixAt(piece, s, i) ==
    /\ i + Len(piece) - 1 <= Len(s)
    /\ \A k \in 1..Len(piece) : s[i + k - 1] = piece[k]

RECURSIVE Segment(_, _, _)
Segment(proc, s, i) ==
    IF i > Len(s) THEN <<>>
    ELSE LET cands == {id \in PieceIds : /\ id # 0
                                         /\ id \notin proc.unused
                                         /\ IsPrefixAt(Pieces[id + 1], s, i)}
         IN  IF cands = {}
             THEN <<0>> \o Segment(proc, s, i + Utf8CharLen(s[i]))
             ELSE LET best == CHOOSE id \in cands :
                                  \A o \in cands : Len(Pieces[o + 1]) <= Len(Pieces[id + 1])
                  IN  <<best>> \o Segment(proc, s, i + Len(Pieces[best + 1]))

\* the segmentation of a UTF-8 text; a subword model marks the start of the
\* text with the word-boundary piece first
Engine_EncodeAsIds(proc, text) ==
    IF proc.model = NoModel \/ text = <<>> THEN <<>>
    ELSE IF proc.model = UnigramModel
         THEN Segment(proc, utf16_to_utf8(LowerOneEighth).val \o text, 1)
         ELSE Segment(proc, text, 1)

Engine_IsUnknown(proc, id) == proc.model # NoModel /\ id = 0

Engine_IdToPiece(proc, id) ==
    IF proc.model # NoModel /\ id \in PieceIds THEN Pieces[id + 1] ELSE <<>>

(***************************************************************************)
(* class SentencePieceInterop.  A method result is a record with a field   *)
(* raised: TRUE when the method leaves by an exception.                     *)
(***************************************************************************)
Raised == [raised |-> TRUE]

\* mutant: the load status is not looked at
check_status_unchecked(status) == [raised |-> FALSE]

check_status(status) == [raised |-> ~status.ok]

SentencePieceInterop_ctor(modelPath, vocab, vocabSize) ==
    LET path == utf16_to_utf8(modelPath)
        loaded == Engine_Load(NewProcessor, path.val)
        given == ~vocab.null /\ vocabSize > 0
        conv == [i \in 1..vocabSize |-> utf16_to_utf8(vocab.entries[i])]
        vocab_str == [i \in 1..vocabSize |-> conv[i].val]
        proc == IF given
                THEN Engine_SetVocabulary(loaded.proc, vocab_str).proc  \* status dropped
                ELSE loaded.proc
    IN  IF ~path.ok THEN Raised
        ELSE IF given /\ \E i \in 1..vocabSize : ~conv[i].ok THEN Raised
        ELSE IF check_status(loaded.status).raised THEN Raised
        ELSE [raised |-> FALSE, this |-> [m_processor |-> proc]]

\* mutant: the ids are copied before the size is checked
EncodeAsIds_copy_before_check(this, word, pieceIdBuffer, pieceIdBufferSize) ==
    LET wordInUtf8 == utf16_to_utf8(word)
        piece_ids == Engine_EncodeAsIds(this.m_processor, wordInUtf8.val)
        copied == [i \in 1..Len(pieceIdBuffer) |->
                     IF i <= Len(piece_ids) THEN piece_ids[i] ELSE pieceIdBuffer[i]]
    IN  IF ~wordInUtf8.ok THEN Raised
        ELSE IF Len(piece_ids) > pieceIdBufferSize
        THEN [raised |-> FALSE, ret |-> -Len(piece_ids), buf |-> copied]
        ELSE [raised |-> FALSE, ret |-> Len(piece_ids), buf |-> copied]

\* mutant: a full buffer is taken for an overflow (>= for >)
EncodeAsIds_off_by_one(this, word, pieceIdBuffer, pieceIdBufferSize) ==
    LET wordInUtf8 == utf16_to_utf8(word)
        piece_ids == Engine_EncodeAsIds(this.m_processor, wordInUtf8.val)
    IN  IF ~wordInUtf8.ok THEN Raised
        ELSE IF Len(piece_ids) >= pieceIdBufferSize
        THEN [raised |-> FALSE, ret |-> -Len(piece_ids), buf |-> pieceIdBuffer]
        ELSE [raised |-> FALSE, ret |-> Len(piece_ids),
              buf |-> [i \in 1..Len(pieceIdBuffer) |->
                         IF i <= Len(piece_ids) THEN piece_ids[i] ELSE pieceIdBuffer[i]]]

\* mutant: an overflow is reported as -1, not as the negated length
EncodeAsIds_overflow_minus_one(this, word, pieceIdBuffer, pieceIdBufferSize) ==
    LET wordInUtf8 == utf16_to_utf8(word)
        piece_ids == Engine_EncodeAsIds(this.m_processor, wordInUtf8.val)
    IN  IF ~wordInUtf8.ok THEN Raised
        ELSE IF Len(piece_ids) > pieceIdBufferSize
        THEN [raised |-> FALSE, ret |-> -1, buf |-> pieceIdBuffer]
        ELSE [raised |-> FALSE, ret |-> Len(piece_ids),
              buf |-> [i \in 1..Len(pieceIdBuffer) |->
                         IF i <= Len(piece_ids) THEN piece_ids[i] ELSE pieceIdBuffer[i]]]

SentencePieceInterop_EncodeAsIds(this, word, pieceIdBuffer, pieceIdBufferSize) ==
    LET wordInUtf8 == utf16_to_utf8(word)
        piece_ids == Engine_EncodeAsIds(this.m_processor, wordInUtf8.val)
    IN  IF ~wordInUtf8.ok THEN Raised
        ELSE IF Len(piece_ids) > pieceIdBufferSize
        THEN [raised |-> FALSE, ret |-> -Len(piece_ids), buf |-> pieceIdBuffer]
        ELSE [raised |-> FALSE, ret |-> Len(piece_ids),
              buf |-> [i \in 1..Len(pieceIdBuffer) |->
                         IF i <= Len(piece_ids) THEN piece_ids[i] ELSE pieceIdBuffer[i]]]

\* mutant: the length of the UTF-8 text is returned
UCS2LengthOfPieceId_byte_length(this, pieceId) ==
    IF Engine_IsUnknown(this.m_processor, pieceId)
    THEN [raised |-> FALSE, ret |-> -1]
    ELSE [raised |-> FALSE, ret |-> Len(Engine_IdToPiece(this.m_processor, pieceId))]

SentencePieceInterop_UCS2LengthOfPieceId(this, pieceId) ==
    IF Engine_IsUnknown(this.m_processor, pieceId)
    THEN [raised |-> FALSE, ret |-> -1]
    ELSE [raised |-> FALSE,
          ret |-> count_utf8_to_utf16(Engine_IdToPiece(this.m_processor, pieceId))]

(***************************************************************************)
(* The exported C functions.  h is the heap of SentencePieceInterop        *)
(* objects, object a handle (an address, or nullptr).  escaped = TRUE      *)
(* would mean an exception left the function.                              *)
(***************************************************************************)
Free == [live |-> FALSE, m_processor |-> NewProcessor]

\* mutant: the object of a failed construction is not freed
LoadModel_leak_on_failure(h, addr, modelPath, vocab, vocabSize) ==
    LET c == SentencePieceInterop_ctor(modelPath, vocab, vocabSize)
    IN  IF c.raised
        THEN [ret |-> nullptr,
              heap |-> [h EXCEPT ![addr] = [live |-> TRUE, m_processor |-> NewProcessor]],
              escaped |-> FALSE]
        ELSE [ret |-> addr,
              heap |-> [h EXCEPT ![addr] = [live |-> TRUE,
                                            m_processor |-> c.this.m_processor]],
              escaped |-> FALSE]

LoadModel(h, addr, modelPath, vocab, vocabSize) ==
    LET c == SentencePieceInterop_ctor(modelPath, vocab, vocabSize)
    IN  IF c.raised
        THEN [ret |-> nullptr, heap |-> h, escaped |-> FALSE]
        ELSE [ret |-> addr,
              heap |-> [h EXCEPT ![addr] = [live |-> TRUE,
                                            m_processor |-> c.this.m_processor]],
              escaped |-> FALSE]

\* mutant: no handler around the call
EncodeAsIds_no_catch(h, object, word, pieceIdBuffer, pieceIdBufferSize) ==
    LET r == SentencePieceInterop_EncodeAsIds(h[object], word, pieceIdBuffer,
                                              pieceIdBufferSize)
    IN  IF r.raised
        THEN [ret |-> 0, buf |-> pieceIdBuffer, escaped |-> TRUE]
        ELSE [ret |-> r.ret, buf |-> r.buf, escaped |-> FALSE]

EncodeAsIds(h, object, word, pieceIdBuffer, pieceIdBufferSize) ==
    LET r == SentencePieceInterop_EncodeAsIds(h[object], word, pieceIdBuffer,
                                              pieceIdBufferSize)
    IN  IF r.raised
        THEN [ret |-> -1, buf |-> pieceIdBuffer, escaped |-> FALSE]
        ELSE [ret |-> r.ret, buf |-> r.buf, escaped |-> FALSE]

UCS2LengthOfPieceId(h, object, pieceId) ==
    LET r == SentencePieceInterop_UCS2LengthOfPieceId(h[object], pieceId)
    IN  IF r.raised
        THEN [ret |-> 0, escaped |-> FALSE]
        ELSE [ret |-> r.ret, escaped |-> FALSE]

\* mutant: the processor is shared, so deleting one object takes it from all
UnloadModel_shared_processor(h, object) ==
    IF object = nullptr THEN h
    ELSE [a \in DOMAIN h |-> IF a = object THEN Free
                             ELSE [h[a] EXCEPT !.m_processor = NewProcessor]]

UnloadModel(h, object) ==
    IF object = nullptr THEN h ELSE [h EXCEPT ![object] = Free]

(***************************************************************************)
(* The caller.  heap is the wrapper's objects; owned the handles the       *)
(* caller got from LoadModel and has not unloaded; created the instance    *)
(* each owned handle had when LoadModel returned it; last the call that    *)
(* has just returned, with its arguments and results (NoCall between       *)
(* calls).                                                                 *)
(***************************************************************************)
Words == SeqsUpTo(CodeUnits, MaxWordLen)

ModelPaths == {LetterA, LetterA \o LetterA, Grinning, LoneHigh}

VocabEntries == {LowerOneEighth \o LetterA, LowerOneEighth \o Grinning, LoneLow}

NullVocab == [null |-> TRUE, entries |-> <<>>]

VocabArgs ==
    {NullVocab} \cup
    {[null |-> FALSE, entries |-> e] : e \in SeqsUpTo(VocabEntries, MaxVocab) \ {<<>>}}

VocabSizes(vocab) == IF vocab.null THEN {0, 1} ELSE {0, Len(vocab.entries)}

\* a caller buffer of capacity c, every slot holding a value no piece id equals
FreshBuffer(c) == [i \in 1..c |-> -i]

NoCall ==
    [op |-> "none", object |-> nullptr, ret |-> 0, escaped |-> FALSE,
     word |-> <<>>, bufBefore |-> <<>>, bufAfter |-> <<>>, pieceId |-> 0,
     modelPath |-> <<>>, vocab |-> NullVocab, vocabSize |-> 0]

Init ==
    /\ heap = [a \in Addr |-> Free]
    /\ owned = {}
    /\ created = [a \in Addr |-> Free]
    /\ last = NoCall

DoLoadModel ==
    /\ last = NoCall
    /\ \E addr \in {a \in Addr : ~heap[a].live}, modelPath \in ModelPaths, vocab \in VocabArgs :
      \E vocabSize \in VocabSizes(vocab) :
        \E r \in {LoadModel(heap, addr, modelPath, vocab, vocabSize)} :
            /\ heap' = r.heap
            /\ owned' = IF r.ret # nullptr THEN owned \cup {r.ret} ELSE owned
            /\ created' = IF r.ret # nullptr
                          THEN [created EXCEPT ![r.ret] = r.heap[r.ret]]
                          ELSE created
            /\ last' = [NoCall EXCEPT !.op = "LoadModel", !.ret = r.ret,
                                      !.escaped = r.escaped, !.modelPath = modelPath,
                                      !.vocab = vocab, !.vocabSize = vocabSize]

DoEncodeAsIds ==
    /\ last = NoCall
    /\ \E object \in owned, word \in Words, c \in 0..MaxCapacity :
        \E r \in {EncodeAsIds(heap, object, word, FreshBuffer(c), c)} :
            /\ last' = [NoCall EXCEPT !.op = "EncodeAsIds", !.object = object,
                                      !.ret = r.ret, !.escaped = r.escaped,
                                      !.word = word, !.bufBefore = FreshBuffer(c),
                                      !.bufAfter = r.buf]
            /\ UNCHANGED <<heap, owned, created>>

DoUCS2LengthOfPieceId ==
    /\ last = NoCall
    /\ \E object \in owned, pieceId \in (-1)..Len(PieceUnits) :
        \E r \in {UCS2LengthOfPieceId(heap, object, pieceId)} :
            /\ last' = [NoCall EXCEPT !.op = "UCS2LengthOfPieceId", !.object = object,
                                      !.ret = r.ret, !.escaped = r.escaped,
                                      !.pieceId = pieceId]
            /\ UNCHANGED <<heap, owned, created>>

DoUnloadModel ==
    /\ last = NoCall
    /\ \E object \in owned \cup {nullptr} :
        /\ heap' = UnloadModel(heap, object)
        /\ owned' = owned \ {object}
        /\ created' = [a \in Addr |-> IF a = object THEN Free ELSE created[a]]
        /\ last' = [NoCall EXCEPT !.op = "UnloadModel", !.object = object]

\* the caller has read the result of the finished call and makes the next one
Return ==
    /\ last # NoCall
    /\ last' = NoCall
    /\ UNCHANGED <<heap, owned, created>>

Next ==
    \/ DoLoadModel
    \/ DoEncodeAsIds
    \/ DoUCS2LengthOfPieceId
    \/ DoUnloadModel
    \/ Return

Spec == Init /\ [][Next]_vars

(***************************************************************************)
(* What the properties below speak about: the call that has just returned. *)
(***************************************************************************)
LiveInstances == {a \in Addr : heap[a].live}

\* EncodeAsIds: the engine's segmentation of the text, the buffer's capacity
WordConverts == utf16_to_utf8(last.word).ok
Segmentation ==
    Engine_EncodeAsIds(heap[last.object].m_processor, utf16_to_utf8(last.word).val)
Capacity == Len(last.bufBefore)
HasSegmentation == last.op = "EncodeAsIds" /\ WordConverts

\* LoadModel: the vocabulary handed in, the engine's answers
VocabGiven == ~last.vocab.null /\ last.vocabSize > 0
SuppliedEntries == [i \in 1..last.vocabSize |-> last.vocab.entries[i]]
VocabConverts ==
    VocabGiven => \A i \in 1..last.vocabSize : utf16_to_utf8(SuppliedEntries[i]).ok
SuppliedUtf8 == [i \in 1..last.vocabSize |-> utf16_to_utf8(SuppliedEntries[i]).val]
PathConverts == utf16_to_utf8(last.modelPath).ok
EngineLoad == Engine_Load(NewProcessor, utf16_to_utf8(last.modelPath).val)
ModelLoadOk == PathConverts /\ EngineLoad.status.ok
SetVocabularyFails ==
    /\ VocabGiven /\ PathConverts /\ VocabConverts
    /\ ~Engine_SetVocabulary(EngineLoad.proc, SuppliedUtf8).status.ok

\* C1: when the segmentation is longer than the buffer, EncodeAsIds returns a
\* negative value and the buffer holds after the call what it held before.
EncodeOverflowLeavesBuffer ==
    (HasSegmentation /\ Len(Segmentation) > Capacity)
        => (last.ret < 0 /\ last.bufAfter = last.bufBefore)

EncodeOverflowWitness ==
    /\ HasSegmentation
    /\ Capacity = 2
    /\ Len(Segmentation) = 3
    /\ last.ret < 0

\* C2: when the segmentation fits (n <= c), EncodeAsIds returns n, slots
\* 0..n-1 hold the engine's piece ids in order, slots n..c-1 are unchanged.
EncodeFitsWritesPrefix ==
    (HasSegmentation /\ Len(Segmentation) <= Capacity)
        => /\ last.ret = Len(Segmentation)
           /\ Len(last.bufAfter) = Capacity
           /\ \A i \in 1..Capacity :
                last.bufAfter[i] = IF i <= Len(Segmentation) THEN Segmentation[i]
                                   ELSE last.bufBefore[i]

EncodeFitsWitness ==
    /\ HasSegmentation
    /\ Len(Segmentation) = 2
    /\ Capacity = 3
    /\ last.ret = 2

\* C3 as stated: LoadModel returns a non-zero handle if and only if the
\* engine's model load reported success.
LoadHandleIffModelLoaded ==
    last.op = "LoadModel" => (last.ret # nullptr <=> ModelLoadOk)

\* C3 as amended: LoadModel returns a non-zero handle if and only if the
\* engine's model load reported success and every supplied vocabulary entry
\* converted; a failed model load yields the zero handle with or without a
\* vocabulary, and the status of the vocabulary-setting step plays no part.
LoadHandleIffLoadedAndConverted ==
    last.op = "LoadModel"
        => /\ last.ret # nullptr <=> (ModelLoadOk /\ VocabConverts)
           /\ ~ModelLoadOk => last.ret = nullptr

LoadHandleWitness ==
    /\ last.op = "LoadModel"
    /\ ModelLoadOk
    /\ VocabGiven
    /\ ~VocabConverts
    /\ last.ret = nullptr

\* C4: whenever the engine's vocabulary-setting step reports a failure
\* status, LoadModel returns the zero handle.
VocabularyFailureYieldsNull ==
    (last.op = "LoadModel" /\ SetVocabularyFails) => last.ret = nullptr

\* the UTF-16 text of a piece, from its UTF-8 text
PieceUtf16(text) ==
    CHOOSE u \in {PieceUnits[k] : k \in 1..Len(PieceUnits)} \cup {<<>>} :
        utf16_to_utf8(u) = [ok |-> TRUE, val |-> text]

\* C5: UCS2LengthOfPieceId returns -1 exactly for the ids the engine calls
\* unknown, and for every other id the number of UTF-16 code units of the
\* text IdToPiece gives.
UCS2LengthIsUtf16Length ==
    last.op = "UCS2LengthOfPieceId"
        => LET proc == heap[last.object].m_processor
           IN  /\ last.ret = -1 <=> Engine_IsUnknown(proc, last.pieceId)
               /\ ~Engine_IsUnknown(proc, last.pieceId)
                    => last.ret = Len(PieceUtf16(Engine_IdToPiece(proc, last.pieceId)))

UCS2LengthWitness ==
    /\ last.op = "UCS2LengthOfPieceId"
    /\ last.pieceId = 4
    /\ last.ret = 3

LiveInstancesAreOwned == LiveInstances = owned

UnloadWitness ==
    /\ last.op = "UnloadModel"
    /\ last.object # nullptr
    /\ owned # {}
    /\ ~heap[last.object].live

\* C8: with a non-empty vocabulary the created engine is restricted to
\* exactly the supplied entries; with none (null list or count 0) it keeps
\* its full vocabulary.
VocabularyRestrictsEngine ==
    (last.op = "LoadModel" /\ last.ret # nullptr)
        => heap[last.ret].m_processor.unused =
             IF VocabGiven
             THEN {id \in RestrictablePieces : ~InVocab(Pieces[id + 1], SuppliedUtf8)}
             ELSE {}

\* the heap that holds the instance of one handle, as created, and no other
Alone(object) == [a \in Addr |-> IF a = object THEN created[a] ELSE Free]

\* C9: a call on one handle leaves every other handle's instance as it was
\* created, and a call's result is the one it has when its handle's instance
\* is the only one.
HandlesAreIndependent ==
    /\ \A b \in owned : heap[b] = created[b]
    /\ last.op = "EncodeAsIds"
        => LET r == EncodeAsIds(Alone(last.object), last.object, last.word,
                                last.bufBefore, Capacity)
           IN  last.ret = r.ret /\ last.bufAfter = r.buf
    /\ last.op = "UCS2LengthOfPieceId"
        => last.ret = UCS2LengthOfPieceId(Alone(last.object), last.object,
                                          last.pieceId).ret

IndependenceWitness ==
    /\ last.op = "UnloadModel"
    /\ last.object # nullptr
    /\ \E b \in owned : /\ b # last.object
                        /\ heap[b].m_processor.model = UnigramModel
                        /\ heap[b].m_processor.unused # {}

\* the same call again, with a fresh buffer of capacity c
Retry(c) == EncodeAsIds(heap, last.object, last.word, FreshBuffer(c), c)

\* C10 as stated: every negative value r that EncodeAsIds returns is the
\* negated segmentation length, and a retry with capacity -r returns -r and
\* fills the buffer with the segmentation.
NegativeReturnIsCapacity ==
    (last.op = "EncodeAsIds" /\ last.ret < 0)
        => /\ WordConverts
           /\ Len(Segmentation) = -last.ret
           /\ Retry(-last.ret).ret = -last.ret
           /\ Retry(-last.ret).buf = Segmentation

\* C10 as amended: a negative value returned for a text that converts is the
\* negated segmentation length, and the retry with that capacity succeeds;
\* for a text whose conversion fails the call returns -1, and so does the
\* retry with capacity 1.
NegativeReturnIsCapacityUnlessFailure ==
    /\ (HasSegmentation /\ last.ret < 0)
        => /\ Len(Segmentation) = -last.ret
           /\ Retry(-last.ret).ret = -last.ret
           /\ Retry(-last.ret).buf = Segmentation
    /\ (last.op = "EncodeAsIds" /\ ~WordConverts)
        => /\ last.ret = -1
           /\ Retry(1).ret = -1

RetryWitness ==
    /\ HasSegmentation
    /\ last.ret = -3
    /\ Retry(3).ret = 3

====
